---- MODULE Spec2Model ----
(***************************************************************************)
(* A model of src/src/utils.py: the feature/target splitter, the           *)
(* stratified train/test splitter and the joblib serializer/deserializer.  *)
(* The functions are thin wrappers, so the library routines they call      *)
(* (DataFrame.drop, DataFrame.__getitem__, sklearn's train_test_split with *)
(* stratify, os.makedirs, joblib.dump/load) are modelled at the call site  *)
(* by what the routine computes. Column names are unique within a frame,   *)
(* a float test_size is an exact fraction, and pickle and the compressor   *)
(* are an encoder/decoder pair over streams of numbers.                    *)
(***************************************************************************)
EXTENDS Integers, Sequences, FiniteSets, TLC

VARIABLES
    data,       \* the DataFrame handed to split_feature_target
    ftRet,      \* outcome of the last split_feature_target call
    X,          \* the feature DataFrame handed to split_train_test
    y,          \* the target Series handed to split_train_test
    test_size,  \* the test_size argument of split_train_test
    ttRet,      \* outcome of the last split_train_test call, with its random_state
    counts,     \* class counts handed to the stratified allocation
    alloc,      \* outcome of the last stratified allocation
    fs,         \* the file system: path -> absent, directory or file content
    dumped,     \* per path, the object of the most recent successful serialize_data
    ioRet,      \* outcome of the last serialize_data / deserialize_data call
    pool        \* the objects the caller holds and may serialize

vars == <<data, ftRet, X, y, test_size, ttRet, counts, alloc, fs, dumped, ioRet, pool>>

\* ------------------------------------------------------------------ bounds
MaxRowsFT == 2
MaxRows == 4
MaxClassCount == 6

\* ------------------------------------------------------------------ helpers
Range(s) == {s[i] : i \in 1..Len(s)}

Injective(s) == \A i, j \in 1..Len(s) : s[i] = s[j] => i = j

SeqsUpTo(S, n) == UNION {[1..k -> S] : k \in 0..n}

RECURSIVE SumSeq(_)
SumSeq(s) == IF s = <<>> THEN 0 ELSE s[1] + SumSeq(Tail(s))

\* s without its i-th element
Without(s, i) == [k \in 1..(Len(s) - 1) |-> IF k < i THEN s[k] ELSE s[k + 1]]

\* the sequence of s's elements at the positions pos (pandas .iloc / take)
Take(s, pos) == [k \in 1..Len(pos) |-> s[pos[k]]]

NoCall == [status |-> "none"]
Raise(exc, detail) == [status |-> "raise", exc |-> exc, detail |-> detail]

\* ------------------------------------------------------------------ pandas values
Names == <<"age", "income", "loan_status">>
Vals == {0, 1}

\* Row-index labels: a RangeIndex, the labels a filtered or shuffled table keeps,
\* and an index holding a label twice (as concatenating two tables gives).
IndexKinds == {"range", "sparse", "dup"}
IndexOf(kind, n) ==
    [i \in 1..n |->
        CASE kind = "range" -> i - 1
          [] kind = "sparse" -> 10 + 3 * (n - i)
          [] OTHER -> (i - 1) \div 2]

DataFrame(cols, idx, cells) ==
    [kind |-> "DataFrame", columns |-> cols, index |-> idx, cells |-> cells]
Series(name, idx, values) ==
    [kind |-> "Series", name |-> name, index |-> idx, values |-> values]

\* cells[j] is the column of values under columns[j]
ColumnLists == {c \in SeqsUpTo(Range(Names), Len(Names)) : Injective(c)}
Frames(maxRows) ==
    UNION {UNION {UNION {
        {DataFrame(cols, IndexOf(k, n), cells) :
            cells \in [1..Len(cols) -> [1..n -> Vals]]}
        : k \in IndexKinds} : n \in 0..maxRows} : cols \in ColumnLists}

\* ------------------------------------------------------------------ split_feature_target
\* Mutation of drop: the column is removed from the caller's frame too (inplace=True).
drop_inplace(df, label) ==
    IF label \notin Range(df.columns)
    THEN Raise("KeyError", label)
    ELSE LET j == CHOOSE k \in 1..Len(df.columns) : df.columns[k] = label
             out == DataFrame(Without(df.columns, j), df.index, Without(df.cells, j))
         IN  [status |-> "ok", value |-> out, self |-> out]

\* DataFrame.drop(label, axis=1): a new frame without the column; KeyError if absent.
\* self is the frame the caller passed, as it is after the call.
drop(df, label) ==
    IF label \notin Range(df.columns)
    THEN Raise("KeyError", label)
    ELSE LET j == CHOOSE k \in 1..Len(df.columns) : df.columns[k] = label
         IN  [status |-> "ok",
              value |-> DataFrame(Without(df.columns, j), df.index, Without(df.cells, j)),
              self |-> df]

\* DataFrame.__getitem__(label): the column as a Series; KeyError if absent.
getitem(df, label) ==
    IF label \notin Range(df.columns)
    THEN Raise("KeyError", label)
    ELSE LET j == CHOOSE k \in 1..Len(df.columns) : df.columns[k] = label
         IN  [status |-> "ok", value |-> Series(label, df.index, df.cells[j])]

\* Mutation of split_feature_target: an absent column is tolerated
\* (drop(errors="ignore") and data.get), so nothing is raised.
split_feature_target_lenient(df, target_col) ==
    IF target_col \in Range(df.columns)
    THEN [ret |-> [status |-> "ok", X |-> drop(df, target_col).value,
                   y |-> getitem(df, target_col).value],
          data |-> df]
    ELSE [ret |-> [status |-> "ok", X |-> df, y |-> Series(target_col, <<>>, <<>>)],
          data |-> df]

\* The whole call: what it returns (or raises) and the frame the caller still holds.
split_feature_target(df, target_col) ==
    LET dropped == drop(df, target_col)
    IN  IF dropped.status = "raise"
        THEN [ret |-> dropped, data |-> df]
        ELSE LET col == getitem(dropped.self, target_col)
             IN  IF col.status = "raise"
                 THEN [ret |-> col, data |-> dropped.self]
                 ELSE [ret |-> [status |-> "ok", X |-> dropped.value, y |-> col.value],
                       data |-> dropped.self]

SplitFeatureTarget(target_col) ==
    /\ LET r == split_feature_target(data, target_col)
       IN  /\ ftRet' = [status |-> r.ret.status, arg |-> data,
                         target_col |-> target_col, out |-> r.ret]
           /\ data' = r.data
    /\ UNCHANGED <<X, y, test_size, ttRet, counts, alloc, fs, dumped, ioRet, pool>>

InitFT ==
    /\ data \in Frames(MaxRowsFT)
    /\ ftRet = NoCall
    /\ X = <<>> /\ y = <<>> /\ test_size = 0 /\ ttRet = NoCall
    /\ counts = <<>> /\ alloc = NoCall
    /\ fs = <<>> /\ dumped = <<>> /\ ioRet = NoCall /\ pool = {}

NextFT == \E c \in Range(Names) : SplitFeatureTarget(c)

SpecFT == InitFT /\ [][NextFT]_vars

\* The values of the column of df named label
ColumnOf(df, label) ==
    df.cells[CHOOSE k \in 1..Len(df.columns) : df.columns[k] = label]

PositionIn(s, x) == CHOOSE k \in 1..Len(s) : s[k] = x

\* C4: for a column c present in D, split_feature_target(D, c) returns (F, t): F has
\* exactly D's columns other than c, in D's order and with D's values; t holds the
\* values of column c; F and t carry D's row index; D itself still holds column c.
C4_FeatureTargetSplit ==
    (ftRet.status # "none" /\ ftRet.target_col \in Range(ftRet.arg.columns)) =>
        /\ ftRet.status = "ok"
        /\ LET D == ftRet.arg
               c == ftRet.target_col
               F == ftRet.out.X
               t == ftRet.out.y
           IN  /\ F.kind = "DataFrame" /\ t.kind = "Series"
               /\ Range(F.columns) = Range(D.columns) \ {c}
               /\ Len(F.columns) = Len(D.columns) - 1
               /\ \A i, j \in 1..Len(F.columns) :
                      i < j => PositionIn(D.columns, F.columns[i])
                                 < PositionIn(D.columns, F.columns[j])
               /\ \A k \in 1..Len(F.columns) :
                      F.cells[k] = ColumnOf(D, F.columns[k])
               /\ t.values = ColumnOf(D, c)
               /\ t.name = c
               /\ F.index = D.index /\ t.index = D.index
               /\ data = D
               /\ c \in Range(data.columns)

C4_Witness ==
    /\ ftRet.status = "ok"
    /\ ftRet.arg.columns = <<"income", "loan_status", "age">>
    /\ ftRet.target_col = "loan_status"
    /\ ftRet.out.X.columns = <<"income", "age">>
    /\ ftRet.arg.index = <<13, 10>>
    /\ ftRet.out.y.values = <<1, 0>>

\* C9: for a column c absent from D, split_feature_target(D, c) raises the library's
\* KeyError as it is (naming c), returns no (Features, Target) pair, and leaves D alone.
C9_MissingColumnRaises ==
    (ftRet.status # "none" /\ ftRet.target_col \notin Range(ftRet.arg.columns)) =>
        /\ ftRet.status = "raise"
        /\ ftRet.out = Raise("KeyError", ftRet.target_col)
        /\ data = ftRet.arg

C9_Witness ==
    /\ ftRet.status = "raise"
    /\ ftRet.arg.columns = <<"age", "income">>
    /\ ftRet.target_col = "loan_status"
    /\ Len(ftRet.arg.index) = 2

\* ------------------------------------------------------------------ split_train_test
\* test_size is a Python float (num/den) or a Python int (num, den = 1).
PyFloat(num, den) == [kind |-> "f", num |-> num, den |-> den]
PyInt(num) == [kind |-> "i", num |-> num, den |-> 1]

\* random_state is None or a Python int, held as hi * 2^16 + lo.
NoSeed == [kind |-> "None", hi |-> 0, lo |-> 0]
Seed(hi, lo) == [kind |-> "int", hi |-> hi, lo |-> lo]

Ceil(num, den) == -((-num) \div den)

\* np.unique(y): the distinct values in ascending order
RECURSIVE SortedSeq(_)
SortedSeq(S) ==
    IF S = {} THEN <<>>
    ELSE LET m == CHOOSE x \in S : \A z \in S : x <= z
         IN  <<m>> \o SortedSeq(S \ {m})

\* np.bincount(y_indices): how often each class occurs in values
ClassCounts(values) ==
    LET classes == SortedSeq(Range(values))
    IN  [c \in 1..Len(classes) |->
            Cardinality({i \in 1..Len(values) : values[i] = classes[c]})]

\* how often each class of `classes` occurs among the positions pos of values
CountsAt(values, classes, pos) ==
    [c \in 1..Len(classes) |->
        Cardinality({k \in 1..Len(pos) : values[pos[k]] = classes[c]})]

\* check_random_state(random_state): None, or an int in 0..2^32-1
SeedValid(seed) ==
    \/ seed.kind = "None"
    \/ 0 <= seed.hi /\ seed.hi < 65536 /\ 0 <= seed.lo /\ seed.lo < 65536

\* Mutation of NTest: the value, not the Python type, decides how test_size is read,
\* so any size of 1 or more is taken as a number of rows.
NTest_by_value(n_samples, ts) ==
    IF ts.num <= 0 \/ (ts.num >= ts.den /\ ts.num \div ts.den >= n_samples)
    THEN 0
    ELSE LET n_test == IF ts.num < ts.den THEN Ceil(ts.num * n_samples, ts.den)
                       ELSE ts.num \div ts.den
         IN  IF n_samples - n_test = 0 THEN 0 ELSE n_test

\* _validate_shuffle_split(n_samples, test_size, train_size=None): n_test, or 0 when
\* it raises ValueError (an int size <= 0 or >= n_samples, a float size <= 0 or >= 1,
\* or a train set left empty).
NTest(n_samples, ts) ==
    IF \/ ts.kind = "i" /\ (ts.num >= n_samples \/ ts.num <= 0)
       \/ ts.kind = "f" /\ (ts.num <= 0 \/ ts.num >= ts.den)
    THEN 0
    ELSE LET n_test == IF ts.kind = "f" THEN Ceil(ts.num * n_samples, ts.den) ELSE ts.num
         IN  IF n_samples - n_test = 0 THEN 0 ELSE n_test

\* Mutation of ApproximateModes: the rows left after flooring go to the first
\* classes, whatever their remainders.
ApproximateModes_first(class_counts, n_draws) ==
    LET K == 1..Len(class_counts)
        total == SumSeq(class_counts)
        floored == [c \in K |-> (class_counts[c] * n_draws) \div total]
        need_to_add == n_draws - SumSeq(floored)
    IN  {[c \in K |-> floored[c] + (IF c <= need_to_add THEN 1 ELSE 0)]}

\* _approximate_mode(class_counts, n_draws, rng): floor of the proportional share,
\* then one more for the classes with the largest remainders until n_draws are
\* given out; the generator breaks ties, so every tie-break is a possible result.
ApproximateModes(class_counts, n_draws) ==
    LET K == 1..Len(class_counts)
        total == SumSeq(class_counts)
        floored == [c \in K |-> (class_counts[c] * n_draws) \div total]
        remainder == [c \in K |-> (class_counts[c] * n_draws) % total]
        need_to_add == n_draws - SumSeq(floored)
    IN  {[c \in K |-> floored[c] + (IF c \in inds THEN 1 ELSE 0)] :
            inds \in {S \in SUBSET K :
                        /\ Cardinality(S) = need_to_add
                        /\ \A a \in S, b \in K \ S : remainder[a] >= remainder[b]}}

\* every way to take n_draws rows from the classes
AnyCounts(class_counts, n_draws) ==
    {a \in [1..Len(class_counts) -> 0..n_draws] :
        /\ SumSeq(a) = n_draws
        /\ \A c \in 1..Len(class_counts) : a[c] <= class_counts[c]}

\* Mutation of stratified_counts: stratify=y is left out of the call, so the split
\* is a plain shuffle with no per-class checks and no per-class shares.
shuffled_counts(class_counts, ts, seed) ==
    LET n_samples == SumSeq(class_counts)
        n_test == NTest(n_samples, ts)
        n_train == n_samples - n_test
    IN  IF ~SeedValid(seed) THEN Raise("ValueError", "random_state")
        ELSE IF n_test = 0 THEN Raise("ValueError", "test_size")
        ELSE [status |-> "ok", n_train |-> n_train, n_test |-> n_test,
              allocs |-> {[n_i |-> n_i,
                           t_i |-> [c \in 1..Len(class_counts) |-> class_counts[c] - n_i[c]]] :
                          n_i \in AnyCounts(class_counts, n_train)}]

\* train_test_split(X, y, test_size=test_size, stratify=y, random_state=random_state)
\* up to the per-class allocation (StratifiedShuffleSplit._iter_indices): a
\* ValueError, or the possible allocations [n_i, t_i] of train and test rows per class.
stratified_counts(class_counts, ts, seed) ==
    LET n_samples == SumSeq(class_counts)
        n_classes == Len(class_counts)
        n_test == NTest(n_samples, ts)
        n_train == n_samples - n_test
    IN  IF ~SeedValid(seed) THEN Raise("ValueError", "random_state")
        ELSE IF n_test = 0 THEN Raise("ValueError", "test_size")
        ELSE IF \E c \in 1..n_classes : class_counts[c] < 2
             THEN Raise("ValueError", "least populated class")
        ELSE IF n_train < n_classes THEN Raise("ValueError", "train_size < classes")
        ELSE IF n_test < n_classes THEN Raise("ValueError", "test_size < classes")
        ELSE [status |-> "ok", n_train |-> n_train, n_test |-> n_test,
              allocs |-> UNION {
                  {[n_i |-> n_i, t_i |-> t_i] :
                      t_i \in ApproximateModes(
                                  [c \in 1..n_classes |-> class_counts[c] - n_i[c]],
                                  n_test)}
                  : n_i \in ApproximateModes(class_counts, n_train)}]

InjectiveSeqs(S, len) == {s \in [1..len -> S] : Injective(s)}

\* The row positions train_test_split may return for an allocation: each class's
\* rows are permuted and cut at n_i and n_i + t_i, and train and test are permuted
\* again, so every order of every such choice of rows can come out.
Partitions(values, a) ==
    LET n == Len(values)
        classes == SortedSeq(Range(values))
    IN  UNION {
            {[train |-> tr, test |-> te] :
                te \in {s \in InjectiveSeqs((1..n) \ Range(tr), SumSeq(a.t_i)) :
                          CountsAt(values, classes, s) = a.t_i}}
            : tr \in {s \in InjectiveSeqs(1..n, SumSeq(a.n_i)) :
                        CountsAt(values, classes, s) = a.n_i}}

\* Mutation of iloc: the rows taken are renumbered 0, 1, ... (reset_index(drop=True)).
iloc_reset(obj, pos) ==
    IF obj.kind = "DataFrame"
    THEN DataFrame(obj.columns, [k \in 1..Len(pos) |-> k - 1],
                   [j \in 1..Len(obj.cells) |-> Take(obj.cells[j], pos)])
    ELSE Series(obj.name, [k \in 1..Len(pos) |-> k - 1], Take(obj.values, pos))

\* _safe_indexing(frame, positions): frame.iloc[positions], labels kept
iloc(obj, pos) ==
    IF obj.kind = "DataFrame"
    THEN DataFrame(obj.columns, Take(obj.index, pos),
                   [j \in 1..Len(obj.cells) |-> Take(obj.cells[j], pos)])
    ELSE Series(obj.name, Take(obj.index, pos), Take(obj.values, pos))

\* Mutation of random_state_passed: the seed is not handed on (random_state=None).
random_state_dropped(random_state) == NoSeed

\* The random_state the wrapper hands to train_test_split
random_state_passed(random_state) == random_state

\* One call: ttRet takes the error raised, or the train and test row positions
\* chosen. RandomState(seed) is a fixed function of the seed, so a call with the
\* seed of the call before it gives that call's partition again; the model keeps no
\* more of the generator than that, and for a seed not just used any partition may
\* come. Without a seed the generator is numpy's global one: any partition may come.
SplitTrainTest(random_state) ==
    LET seed == random_state_passed(random_state)
        sc == stratified_counts(ClassCounts(y.values), test_size, seed)
        again == ttRet.status = "ok" /\ seed.kind = "int" /\ ttRet.used = seed
    IN  /\ IF sc.status = "raise"
           THEN ttRet' = [status |-> "raise", seed |-> random_state, used |-> seed,
                          again |-> FALSE, out |-> sc]
           ELSE IF again
           THEN ttRet' = [ttRet EXCEPT !.seed = random_state, !.again = TRUE]
           ELSE \E a \in sc.allocs : \E p \in Partitions(y.values, a) :
                   ttRet' = [status |-> "ok", seed |-> random_state, used |-> seed,
                             again |-> FALSE,
                             out |-> [status |-> "ok", train |-> p.train, test |-> p.test]]
    /\ UNCHANGED <<data, ftRet, X, y, test_size, counts, alloc, fs, dumped, ioRet, pool>>

\* The four outputs of a call that returned: X and y at the positions chosen
Outputs(ret) ==
    [X_train |-> iloc(X, ret.out.train), X_test |-> iloc(X, ret.out.test),
     y_train |-> iloc(y, ret.out.train), y_test |-> iloc(y, ret.out.test)]

\* test_size values tried: floats in tenths and ints
FloatNums == {-5, 0, 1, 5, 10, 15}
IntSizes == {0, 1, 2, MaxRows}
TestSizes == {PyFloat(k, 10) : k \in FloatNums} \cup {PyInt(k) : k \in IntSizes}

ValidSeeds == {Seed(0, 0), Seed(0, 1)}
Seeds == {NoSeed, Seed(-1, 65535), Seed(65536, 0)} \cup ValidSeeds

Classes == {0, 1}
IndexKindsTT == {"sparse"}

InitTT ==
    /\ \E n \in 0..MaxRows : \E k \in IndexKindsTT : \E v \in [1..n -> Classes] :
          /\ y = Series("loan_status", IndexOf(k, n), v)
          /\ X = DataFrame(<<"age">>, IndexOf(k, n), <<[i \in 1..n |-> 20 + i]>>)
    /\ test_size \in TestSizes
    /\ ttRet = NoCall
   
    /\ data = <<>> /\ ftRet = NoCall
    /\ counts = <<>> /\ alloc = NoCall
    /\ fs = <<>> /\ dumped = <<>> /\ ioRet = NoCall /\ pool = {}

NextTT == \E s \in Seeds : SplitTrainTest(s)

SpecTT == InitTT /\ [][NextTT]_vars

\* ---- the claims about split_train_test
Abs(x) == IF x < 0 THEN -x ELSE x

IsFraction(ts) == ts.kind = "f" /\ 0 < ts.num /\ ts.num < ts.den

TwoPerClass(values) ==
    \A c \in 1..Len(ClassCounts(values)) : ClassCounts(values)[c] >= 2

C7_Original ==
    (ttRet.status # "none" /\ (test_size.num <= 0 \/ test_size.num >= test_size.den)) =>
        (ttRet.status = "raise" /\ ttRet.out.exc = "ValueError")

\* C7, amended: the call fails with an invalid-argument error (ValueError) and
\* returns no partition for every float test_size <= 0 or >= 1 and for every int
\* test_size <= 0 or >= the number of rows; an int test_size k with 1 <= k < the
\* number of rows is a number of test rows, and a call that returns with it returns
\* k test rows.
C7_SizeOutOfRange ==
    /\ (/\ ttRet.status # "none"
        /\ \/ test_size.kind = "f" /\ (test_size.num <= 0 \/ test_size.num >= test_size.den)
           \/ test_size.kind = "i" /\ (test_size.num <= 0 \/ test_size.num >= Len(y.values)))
          => (ttRet.status = "raise" /\ ttRet.out.exc = "ValueError")
    /\ (ttRet.status = "ok" /\ test_size.kind = "i")
          => Len(Outputs(ttRet).X_test.index) = test_size.num

C7_Witness ==
    /\ ttRet.status = "raise"
    /\ test_size = PyFloat(15, 10)
    /\ y.values = <<0, 0, 1, 1>>
    /\ ttRet.seed = NoSeed

\* C10: when some value of the target occurs fewer than 2 times, the call fails with
\* an invalid-argument error (ValueError) whatever the test_size and the seed.
C10_TooFewPerClass ==
    (ttRet.status # "none" /\ ~TwoPerClass(y.values)) =>
        (ttRet.status = "raise" /\ ttRet.out.exc = "ValueError")

C10_Witness ==
    /\ ttRet.status = "raise"
    /\ ttRet.out.detail = "least populated class"
    /\ y.values = <<0, 0, 1, 0>>
    /\ test_size = PyFloat(5, 10)
    /\ ttRet.seed = Seed(0, 0)

\* ------------------------------------------------------------------ the per-class allocation
\* One allocation, for class counts given directly (no rows): the counts of
\* split_train_test's outputs for a target with these class counts.
Stratify(ts) ==
    LET sc == stratified_counts(counts, ts, NoSeed)
    IN  /\ IF sc.status = "raise"
           THEN alloc' = [status |-> "raise", test_size |-> ts, out |-> sc]
           ELSE \E a \in sc.allocs :
                   alloc' = [status |-> "ok", test_size |-> ts, n_train |-> sc.n_train,
                             n_test |-> sc.n_test, n_i |-> a.n_i, t_i |-> a.t_i]
    /\ UNCHANGED <<data, ftRet, X, y, test_size, ttRet, counts, fs, dumped, ioRet, pool>>

\* the scenario of the specification: 70 rows of class 0, 30 rows of class 1
ScenarioCounts == <<70, 30>>
MaxClasses == 3
Tenths == {PyFloat(k, 10) : k \in 0..10}
CountSizes == Tenths \cup {PyInt(k) : k \in IntSizes}

InitStrat ==
    /\ counts \in SeqsUpTo(1..MaxClassCount, MaxClasses) \cup {ScenarioCounts}
    /\ alloc = NoCall
    /\ X = <<>> /\ y = <<>> /\ test_size = 0 /\ ttRet = NoCall
    /\ data = <<>> /\ ftRet = NoCall
    /\ fs = <<>> /\ dumped = <<>> /\ ioRet = NoCall /\ pool = {}

NextStrat == \E ts \in CountSizes : Stratify(ts)

SpecStrat == InitStrat /\ [][NextStrat]_vars

\* C6 as written: in every split the test count of each class differs from
\* test_fraction times the class count by less than one row.
C6_Original ==
    (alloc.status = "ok" /\ alloc.test_size.kind = "f") =>
        \A c \in 1..Len(counts) :
            Abs(alloc.t_i[c] * alloc.test_size.den - alloc.test_size.num * counts[c])
                < alloc.test_size.den

\* C6, amended: in every split, with n rows and a test partition of n_test rows
\* (ceil(test_fraction * n)), the test count of each class differs from
\* (n_test / n) times the class count by less than one row, the train count from
\* ((n - n_test) / n) times the class count by less than one row, and the test
\* count from test_fraction times the class count by less than two rows; 70 rows of
\* class 0 and 30 of class 1 with test_fraction 0.2 give 20 test rows, 14 of class 0
\* and 6 of class 1.
C6_Stratified ==
    alloc.status = "ok" =>
        LET n == SumSeq(counts)
            ts == alloc.test_size
        IN  /\ SumSeq(alloc.t_i) = alloc.n_test
            /\ SumSeq(alloc.n_i) = n - alloc.n_test
            /\ ts.kind = "f" => alloc.n_test = Ceil(ts.num * n, ts.den)
            /\ \A c \in 1..Len(counts) :
                  /\ alloc.n_i[c] + alloc.t_i[c] = counts[c]
                  /\ Abs(alloc.t_i[c] * n - counts[c] * alloc.n_test) < n
                  /\ Abs(alloc.n_i[c] * n - counts[c] * (n - alloc.n_test)) < n
                  /\ ts.kind = "f" =>
                        Abs(alloc.t_i[c] * ts.den - ts.num * counts[c]) < 2 * ts.den
            /\ (counts = ScenarioCounts /\ ts = PyFloat(2, 10)) =>
                  (alloc.n_test = 20 /\ alloc.t_i = <<14, 6>>)

C6_Witness ==
    /\ alloc.status = "ok"
    /\ counts = ScenarioCounts
    /\ alloc.test_size = PyFloat(2, 10)
    /\ alloc.t_i = <<14, 6>>

\* ------------------------------------------------------------------ the file system
\* A path is the sequence of its components, relative to the working directory:
\* <<"d", "a">> is "d/a" and <<>> is "".
Front(path) == SubSeq(path, 1, Len(path) - 1)

Absent == [kind |-> "absent"]
Dir == [kind |-> "dir"]
File(content) == [kind |-> "file", content |-> content]

\* what is at path; the working directory itself is a directory
Stat(fsys, path) == IF path = <<>> THEN Dir ELSE fsys[path]

\* os.mkdir(name)
mkdir(fsys, name) ==
    IF Stat(fsys, Front(name)).kind = "absent" THEN Raise("FileNotFoundError", name)
    ELSE IF Stat(fsys, Front(name)).kind = "file" THEN Raise("NotADirectoryError", name)
    ELSE IF Stat(fsys, name).kind # "absent" THEN Raise("FileExistsError", name)
    ELSE [status |-> "ok", fs |-> [fsys EXCEPT ![name] = Dir]]

\* os.makedirs(name, exist_ok=True): the missing ancestors first, then name itself;
\* an error of mkdir is let go only when name is a directory already.
RECURSIVE makedirs(_, _)
makedirs(fsys, name) ==
    LET head == Front(name)
        above == IF head # <<>> /\ Stat(fsys, head).kind = "absent"
                 THEN makedirs(fsys, head)
                 ELSE [status |-> "ok", fs |-> fsys]
    IN  IF above.status = "raise" THEN above
        ELSE LET made == mkdir(above.fs, name)
             IN  IF made.status = "ok" THEN made
                 ELSE IF Stat(above.fs, name).kind = "dir"
                      THEN [status |-> "ok", fs |-> above.fs]
                      ELSE made

\* ------------------------------------------------------------------ joblib.dump / joblib.load
\* Python objects other than pandas ones
PyNumber(v) == [kind |-> "int", value |-> v]
PyList(items) == [kind |-> "list", items |-> items]

NameCode(name) == CHOOSE k \in 1..Len(Names) : Names[k] = name

RECURSIVE Flatten(_)
Flatten(seqs) == IF seqs = <<>> THEN <<>> ELSE seqs[1] \o Flatten(Tail(seqs))

\* Mutation of Pickle: the row labels are not written; positions 0, 1, ... stand in.
Pickle_no_index(obj) ==
    CASE obj.kind = "DataFrame" ->
            <<1, Len(obj.columns), Len(obj.index)>>
                \o [k \in 1..Len(obj.columns) |-> NameCode(obj.columns[k])]
                \o [k \in 1..Len(obj.index) |-> k - 1]
                \o Flatten(obj.cells)
      [] obj.kind = "Series" ->
            <<2, NameCode(obj.name), Len(obj.index)>>
                \o [k \in 1..Len(obj.index) |-> k - 1] \o obj.values
      [] obj.kind = "int" -> <<3, obj.value>>
      [] OTHER -> <<4, Len(obj.items)>> \o obj.items

\* pickle: the object as a stream of numbers: its type, its sizes, its column names,
\* its row labels and its values.
Pickle(obj) ==
    CASE obj.kind = "DataFrame" ->
            <<1, Len(obj.columns), Len(obj.index)>>
                \o [k \in 1..Len(obj.columns) |-> NameCode(obj.columns[k])]
                \o obj.index
                \o Flatten(obj.cells)
      [] obj.kind = "Series" ->
            <<2, NameCode(obj.name), Len(obj.index)>> \o obj.index \o obj.values
      [] obj.kind = "int" -> <<3, obj.value>>
      [] OTHER -> <<4, Len(obj.items)>> \o obj.items

\* unpickle: the object a stream written by Pickle stands for
Unpickle(b) ==
    CASE b[1] = 1 ->
            LET ncols == b[2]
                nrows == b[3]
            IN  DataFrame([k \in 1..ncols |-> Names[b[3 + k]]],
                          [i \in 1..nrows |-> b[3 + ncols + i]],
                          [k \in 1..ncols |->
                              [i \in 1..nrows |-> b[3 + ncols + nrows + (k - 1) * nrows + i]]])
      [] b[1] = 2 ->
            LET n == b[3]
            IN  Series(Names[b[2]], [i \in 1..n |-> b[3 + i]], [i \in 1..n |-> b[3 + n + i]])
      [] b[1] = 3 -> PyNumber(b[2])
      [] OTHER -> PyList([i \in 1..b[2] |-> b[2 + i]])

\* The compressor, as a run-length code: <<value, run length, value, run length, ...>>
RECURSIVE Compress(_)
Compress(b) ==
    IF b = <<>> THEN <<>>
    ELSE LET rest == Compress(Tail(b))
         IN  IF rest # <<>> /\ rest[1] = b[1]
             THEN <<b[1], rest[2] + 1>> \o SubSeq(rest, 3, Len(rest))
             ELSE <<b[1], 1>> \o rest

RECURSIVE Decompress(_)
Decompress(z) ==
    IF z = <<>> THEN <<>>
    ELSE [k \in 1..z[2] |-> z[1]] \o Decompress(SubSeq(z, 3, Len(z)))

\* what joblib.dump(data, compress=3) writes and what joblib.load reads back
Dumped(obj) == [compress |-> 3, payload |-> Compress(Pickle(obj))]
Loaded(content) == Unpickle(Decompress(content.payload))

\* Mutation of WriteFile: the file is opened with "xb", so a file already there is kept.
WriteFile_exclusive(fsys, path, content) ==
    IF path = <<>> THEN Raise("FileNotFoundError", path)
    ELSE IF Stat(fsys, Front(path)).kind = "absent" THEN Raise("FileNotFoundError", path)
    ELSE IF Stat(fsys, Front(path)).kind = "file" THEN Raise("NotADirectoryError", path)
    ELSE IF Stat(fsys, path).kind = "dir" THEN Raise("IsADirectoryError", path)
    ELSE IF Stat(fsys, path).kind = "file" THEN Raise("FileExistsError", path)
    ELSE [status |-> "ok", fs |-> [fsys EXCEPT ![path] = File(content)]]

\* open(path, "wb") and write: a new file, or the old one truncated
WriteFile(fsys, path, content) ==
    IF path = <<>> THEN Raise("FileNotFoundError", path)
    ELSE IF Stat(fsys, Front(path)).kind = "absent" THEN Raise("FileNotFoundError", path)
    ELSE IF Stat(fsys, Front(path)).kind = "file" THEN Raise("NotADirectoryError", path)
    ELSE IF Stat(fsys, path).kind = "dir" THEN Raise("IsADirectoryError", path)
    ELSE [status |-> "ok", fs |-> [fsys EXCEPT ![path] = File(content)]]

\* joblib.dump(data, filename=path, compress=3)
joblib_dump(fsys, obj, path) == WriteFile(fsys, path, Dumped(obj))

\* joblib.load(path)
joblib_load(fsys, path) ==
    IF path = <<>> \/ Stat(fsys, Front(path)).kind = "absent"
    THEN Raise("FileNotFoundError", path)
    ELSE IF Stat(fsys, Front(path)).kind = "file" THEN Raise("NotADirectoryError", path)
    ELSE IF Stat(fsys, path).kind = "absent" THEN Raise("FileNotFoundError", path)
    ELSE IF Stat(fsys, path).kind = "dir" THEN Raise("IsADirectoryError", path)
    ELSE [status |-> "ok", value |-> Loaded(Stat(fsys, path).content)]

\* ------------------------------------------------------------------ serialize_data
serialize_data(fsys, obj, path) ==
    LET parent_dir == Front(path)
        made == IF parent_dir # <<>>
                THEN makedirs(fsys, parent_dir)
                ELSE [status |-> "ok", fs |-> fsys]
    IN  IF made.status = "raise" THEN [ret |-> made, fs |-> fsys]
        ELSE LET written == joblib_dump(made.fs, obj, path)
             IN  IF written.status = "raise" THEN [ret |-> written, fs |-> made.fs]
                 ELSE [ret |-> [status |-> "ok"], fs |-> written.fs]

SerializeData(obj, path) ==
    LET r == serialize_data(fs, obj, path)
    IN  /\ fs' = r.fs
        /\ ioRet' = [op |-> "serialize_data", status |-> r.ret.status, path |-> path,
                     arg |-> obj, out |-> r.ret]
        /\ dumped' = IF r.ret.status = "ok"
                     THEN [dumped EXCEPT ![path] = [status |-> "ok", obj |-> obj]]
                     ELSE dumped
        /\ UNCHANGED <<data, ftRet, X, y, test_size, ttRet, counts, alloc, pool>>

\* ------------------------------------------------------------------ deserialize_data
\* isinstance(data, (pd.DataFrame, pd.Series))
IsPandas(obj) == obj.kind \in {"DataFrame", "Series"}

\* Mutation of deserialize_data: the isinstance check is left out.
deserialize_data_unchecked(fsys, path) == joblib_load(fsys, path)

deserialize_data(fsys, path) ==
    LET loaded == joblib_load(fsys, path)
    IN  IF loaded.status = "raise" THEN loaded
        ELSE IF ~IsPandas(loaded.value) THEN Raise("TypeError", loaded.value.kind)
        ELSE loaded

DeserializeData(path) ==
    /\ ioRet' = [op |-> "deserialize_data", status |-> deserialize_data(fs, path).status,
                 path |-> path, arg |-> path, out |-> deserialize_data(fs, path)]
    /\ UNCHANGED <<data, ftRet, X, y, test_size, ttRet, counts, alloc, fs, dumped, pool>>

MaxRowsIO == 1

\* The paths written and read, and everything that can come to exist below the
\* working directory because of them.
Paths == {<<>>, <<"a">>, <<"d">>, <<"d", "a">>, <<"d", "e", "f">>}
Nodes == UNION {{SubSeq(q, 1, k) : k \in 1..Len(q)} : q \in Paths}

PandasObjects ==
    {f \in Frames(MaxRowsIO) : Len(f.columns) = 2 /\ "loan_status" \notin Range(f.columns)}
    \cup UNION {UNION {{Series("loan_status", IndexOf(k, n), v) : v \in [1..n -> Vals]}
                   : k \in IndexKinds} : n \in 0..MaxRowsIO}
OtherObjects == {PyNumber(7), PyList(<<1, 1, 2>>)}

InitIO ==
    /\ \E x \in PandasObjects : \E o \in OtherObjects : pool = {x, o}
    /\ fs = [q \in Nodes |-> Absent]
    /\ dumped = [q \in Paths |-> NoCall]
    /\ ioRet = NoCall
    /\ X = <<>> /\ y = <<>> /\ test_size = 0 /\ ttRet = NoCall
    /\ data = <<>> /\ ftRet = NoCall
    /\ counts = <<>> /\ alloc = NoCall

NextIO ==
    \/ \E obj \in pool : \E path \in Paths : SerializeData(obj, path)
    \/ \E path \in Paths : DeserializeData(path)

SpecIO == InitIO /\ [][NextIO]_vars

\* ---- the claims about serialize_data and deserialize_data
ProperPrefixes(path) == {SubSeq(path, 1, k) : k \in 1..(Len(path) - 1)}

\* C2: deserialize_data(p), for a path p whose last serialize_data(X, p) wrote a
\* DataFrame or a Series X, returns an object equal to X: the same kind (table or
\* column), column names, row index and values.
C2_RoundTrip ==
    (/\ ioRet.status # "none"
     /\ ioRet.op = "deserialize_data"
     /\ dumped[ioRet.path].status = "ok"
     /\ dumped[ioRet.path].obj.kind \in {"DataFrame", "Series"}) =>
        /\ ioRet.status = "ok"
        /\ LET got == ioRet.out.value
               put == dumped[ioRet.path].obj
           IN  /\ got.kind = put.kind
               /\ got.index = put.index
               /\ got.kind = "DataFrame" =>
                     (got.columns = put.columns /\ got.cells = put.cells)
               /\ got.kind = "Series" =>
                     (got.name = put.name /\ got.values = put.values)

C2_Witness ==
    /\ ioRet.status = "ok"
    /\ ioRet.op = "deserialize_data"
    /\ ioRet.path = <<"d", "e", "f">>
    /\ ioRet.out.value.kind = "DataFrame"
    /\ ioRet.out.value.columns = <<"income", "age">>
    /\ ioRet.out.value.index = <<10>>
    /\ ioRet.out.value.cells = <<(<<1>>), (<<0>>)>>

\* C3: deserialize_data(p) returns a value only when the object stored at p is a
\* DataFrame or a Series; when the file at p holds any other object (a number, a
\* list) it raises TypeError naming that object's type and returns nothing.
C3_TypeChecked ==
    (ioRet.status # "none" /\ ioRet.op = "deserialize_data") =>
        /\ ioRet.status = "ok" =>
              /\ ioRet.out.value.kind \in {"DataFrame", "Series"}
              /\ dumped[ioRet.path].status = "ok"
              /\ dumped[ioRet.path].obj.kind \in {"DataFrame", "Series"}
        /\ (/\ dumped[ioRet.path].status = "ok"
            /\ dumped[ioRet.path].obj.kind \notin {"DataFrame", "Series"}) =>
              ioRet.out = Raise("TypeError", dumped[ioRet.path].obj.kind)

C3_Witness ==
    /\ ioRet.status = "raise"
    /\ ioRet.op = "deserialize_data"
    /\ ioRet.path = <<"d", "a">>
    /\ ioRet.out = Raise("TypeError", "list")

\* C8: every serialize_data(X, p) call succeeds exactly when p can be written (p is
\* not empty, no ancestor of p is a file and p is not a directory), whether or not a
\* file was at p before; a call that succeeds leaves every ancestor of p a directory
\* (none for a bare file name), the snapshot of X alone in the file at p, and
\* everything else as it was; a call that fails changes nothing; once a path has
\* been written every later call for it succeeds, and after every call the file at
\* each path written so far holds exactly the snapshot of the last call for it.
C8_LastWriteWins ==
    [][(ioRet'.status # "none" /\ ioRet'.op = "serialize_data") =>
          LET p == ioRet'.path
              writable == /\ p # <<>>
                          /\ \A q \in ProperPrefixes(p) : fs[q].kind # "file"
                          /\ fs[p].kind # "dir"
          IN  /\ (ioRet'.status = "ok") <=> writable
              /\ (p # <<>> /\ fs[p].kind = "file") => ioRet'.status = "ok"
              /\ dumped[p].status = "ok" => ioRet'.status = "ok"
              /\ ioRet'.status = "ok" =>
                    /\ \A q \in ProperPrefixes(p) : fs'[q].kind = "dir"
                    /\ fs'[p] = File(Dumped(ioRet'.arg))
                    /\ \A q \in Nodes \ (ProperPrefixes(p) \cup {p}) : fs'[q] = fs[q]
                    /\ \A q \in ProperPrefixes(p) : fs[q].kind = "dir" => fs'[q] = fs[q]
              /\ ioRet'.status = "raise" => fs' = fs
              /\ \A q \in Paths :
                    dumped'[q].status = "ok" =>
                        (\/ (q = p /\ ioRet'.status = "ok" /\ dumped'[q].obj = ioRet'.arg)
                         \/ (q # p /\ dumped'[q] = dumped[q]))
              /\ \A q \in Paths :
                    dumped'[q].status = "ok" => fs'[q] = File(Dumped(dumped'[q].obj))]_vars

C8_Witness ==
    /\ ioRet.status = "ok"
    /\ ioRet.op = "serialize_data"
    /\ ioRet.path = <<"d", "e", "f">>
    /\ fs[<<"d">>] = Dir /\ fs[<<"d", "e">>] = Dir
    /\ fs[<<"d", "a">>].kind = "file"
    /\ fs[<<"d", "e", "f">>] = File(Dumped(PyNumber(7)))
    /\ fs[<<"d", "a">>] # fs[<<"d", "e", "f">>]
====
